---- MODULE Spec2Model ----
(***************************************************************************)
(* Model of the BIGBALZ anomaly-detection engine:                          *)
(*   - RateLimiter            (src/src/api/geckoterminal_client.py)        *)
(*   - BackgroundMonitor      (src/src/monitoring/background_monitor.py)   *)
(*   - moonshot / rug criteria (src/src/algorithms/*.py)                   *)
(* Times are whole seconds.  Percentages are the floor of the float the    *)
(* code computes; every threshold they are compared with is an integer,    *)
(* so floor(x) >= k  <=>  x >= k and the comparisons are exact.            *)
(***************************************************************************)
EXTENDS Integers, Sequences, FiniteSets, TLC

\* ------------------------------------------------------------------------
\* Bounds of the model (not program constants)
\* ------------------------------------------------------------------------
MaxRugScans == 2
MaxMoonScans == 2
MaxFeedLen == 2
NumNetworks == 1
MaxStoreAppends == 11
MaxStoreMoonAppends == 1
MaxRLTime == 5
MaxRLCalls == 5
NumCallers == 3
RLMaxCalls == 2
RLTimeWindow == 2
MaxRequests == 4
NumClients == 2

\* ------------------------------------------------------------------------
\* Program constants
\* ------------------------------------------------------------------------
MOONSHOT_100X_CRITERIA ==
    [min_liquidity |-> 10000, min_price_change |-> 75, min_volume_24h |-> 15000,
     min_tx_count_24h |-> 75, min_market_cap |-> 50000, tier |-> "POTENTIAL 100X"]

MOONSHOT_10X_CRITERIA ==
    [min_liquidity |-> 20000, min_price_change |-> 30, min_volume_24h |-> 30000,
     min_tx_count_24h |-> 100, min_market_cap |-> 100000, tier |-> "POTENTIAL 10X"]

MOONSHOT_2X_CRITERIA ==
    [min_liquidity |-> 75000, min_price_change |-> 20, min_volume_24h |-> 75000,
     min_tx_count_24h |-> 150, min_market_cap |-> 500000, tier |-> "POTENTIAL 2X"]

MOONSHOT_CRITERIA_LIST ==
    <<MOONSHOT_100X_CRITERIA, MOONSHOT_10X_CRITERIA, MOONSHOT_2X_CRITERIA>>

RUG_LIQUIDITY_DRAIN_CRITERIA ==
    [min_liquidity_drop_percent |-> 40, min_initial_liquidity |-> 10000,
     max_final_liquidity |-> 1000, rug_type |-> "LIQUIDITY_DRAIN"]

RUG_PRICE_CRASH_CRITERIA ==
    [min_price_drop_percent |-> 60, rug_type |-> "PRICE_CRASH"]

RUG_VOLUME_DUMP_CRITERIA ==
    [min_volume_spike_percent |-> 500, min_price_drop_percent |-> 50,
     min_previous_volume |-> 1000, rug_type |-> "VOLUME_DUMP"]

MAX_HISTORICAL_DATA_AGE == 120
RUG_LOOKBACK == 60
moonshot_cooldown == 3600
rug_cooldown == 3600
moonshot_scan_interval == 60
rug_scan_interval == 60
HISTORY_KEEP == 10
MoonshotTimeframes == <<60, 300, 3600, 86400>>
\* networks = ['eth', 'solana', 'bsc', 'base'], the first NumNetworks of them
networks == SubSeq(<<"eth", "solana", "bsc", "base">>, 1, NumNetworks)
\* the same list, one network longer: a cycle with a network after the first
FaultNetworks == SubSeq(<<"eth", "solana", "bsc", "base">>, 1, NumNetworks + 1)

\* ------------------------------------------------------------------------
\* Provider payloads.  A pool record is the part of the provider's dict the
\* monitor reads.  Absent marks a key that is missing from the dict.
\* ------------------------------------------------------------------------
Absent == 0 - 1000000
\* a value float() cannot convert: the conversion raises
Malformed == 0 - 2000000
NoContract == ""
NoPoolId == ""

\* dict.get(key, default)
Get(v, default) == IF v = Absent THEN default ELSE v

MkPool(id, contract, price, reserve, vol_h1, vol_h24, tx_buys, mcap, pc_m5) ==
    [id |-> id, base_token_id |-> contract,
     base_token_price_usd |-> price,
     reserve_in_usd |-> reserve, total_reserve_in_usd |-> Absent,
     volume_usd_h1 |-> vol_h1, volume_usd_h24 |-> vol_h24,
     tx_buys |-> tx_buys, tx_sells |-> 0,
     market_cap_usd |-> mcap, fdv_usd |-> Absent,
     base_token_market_cap_usd |-> Absent,
     pc_m1 |-> Absent, pc_m5 |-> pc_m5, pc_h1 |-> Absent, pc_h24 |-> Absent]

\* floor(num / den * 100), den > 0
Percent(num, den) == (num * 100) \div den

\* ------------------------------------------------------------------------
\* Snapshot history lookups
\* ------------------------------------------------------------------------
RECURSIVE InsertNewestFirst(_, _)
\* one step of the stable sort: x goes behind every record at least as new
InsertNewestFirst(s, x) ==
    IF s = <<>> THEN <<x>>
    ELSE IF Head(s).timestamp >= x.timestamp
         THEN <<Head(s)>> \o InsertNewestFirst(Tail(s), x)
         ELSE <<x>> \o s

RECURSIVE ReversedOnly(_)
\* the history read back to front, taken to be newest first without sorting
ReversedOnly(h) ==
    IF h = <<>> THEN <<>> ELSE <<h[Len(h)]>> \o ReversedOnly(SubSeq(h, 1, Len(h) - 1))

RECURSIVE SortedNewestFirst(_)
\* sorted(history, key=lambda x: x['timestamp'], reverse=True)  (stable)
SortedNewestFirst(h) ==
    IF h = <<>> THEN <<>>
    ELSE InsertNewestFirst(SortedNewestFirst(SubSeq(h, 1, Len(h) - 1)), h[Len(h)])

RECURSIVE FirstAtOrBefore(_, _)
\* for record in sorted_history: if record['timestamp'] <= target_time: break
\* the result is <<record>>, or <<>> when the loop finds none
FirstAtOrBefore(s, target_time) ==
    IF s = <<>> THEN <<>>
    ELSE IF Head(s).timestamp <= target_time THEN <<Head(s)>>
         ELSE FirstAtOrBefore(Tail(s), target_time)

HistoricalRecord(history, target_time) ==
    FirstAtOrBefore(SortedNewestFirst(history), target_time)

\* ------------------------------------------------------------------------
\* Rug classifier
\* ------------------------------------------------------------------------
NoRugAlert ==
    [contract |-> NoContract, rug_type |-> "NONE", liquidity_drain_percent |-> 0,
     price_drop_percent |-> 0, volume_spike_percent |-> 0, final_liquidity |-> 0,
     final_volume_1h |-> 0, timestamp |-> 0]

RugAlert(current_data, liquidity_change, price_change, volume_change, rug_type, utcnow) ==
    [contract |-> current_data.contract, rug_type |-> rug_type,
     liquidity_drain_percent |-> liquidity_change,
     price_drop_percent |-> price_change,
     volume_spike_percent |-> volume_change,
     final_liquidity |-> current_data.liquidity,
     final_volume_1h |-> Get(current_data.volume_1h, 0),
     timestamp |-> utcnow]

HasRugHistory(history_map, pool_id) ==
    pool_id \in DOMAIN history_map /\ Len(history_map[pool_id]) >= 2

\* the comparison record of _check_rug_indicators: <<record>> or <<>>
RugHistoricalRecord(history_map, pool_id, current_data) ==
    IF ~HasRugHistory(history_map, pool_id) THEN <<>>
    ELSE HistoricalRecord(history_map[pool_id], current_data.timestamp - RUG_LOOKBACK)

\* the staleness check left out
RugTooOldIgnored(current_data, historical_record) == FALSE

RugTooOld(current_data, historical_record) ==
    current_data.timestamp - historical_record.timestamp > MAX_HISTORICAL_DATA_AGE

LiquidityChange(historical_record, current_data) ==
    IF historical_record.liquidity > 0
    THEN Percent(historical_record.liquidity - current_data.liquidity,
                 historical_record.liquidity)
    ELSE 0

PriceChange(historical_record, current_data) ==
    IF historical_record.price > 0
    THEN Percent(historical_record.price - current_data.price, historical_record.price)
    ELSE 0

VolumeChange(historical_record, current_data) ==
    IF Get(historical_record.volume_1h, 0) > 0
    THEN Percent(Get(current_data.volume_1h, 0) - Get(historical_record.volume_1h, 0),
                 Get(historical_record.volume_1h, 0))
    ELSE 0

IsLiquidityDrain(historical_record, current_data) ==
    /\ LiquidityChange(historical_record, current_data)
          >= RUG_LIQUIDITY_DRAIN_CRITERIA.min_liquidity_drop_percent
    /\ historical_record.liquidity >= RUG_LIQUIDITY_DRAIN_CRITERIA.min_initial_liquidity
    /\ current_data.liquidity < RUG_LIQUIDITY_DRAIN_CRITERIA.max_final_liquidity

IsPriceCrash(historical_record, current_data) ==
    PriceChange(historical_record, current_data)
       >= RUG_PRICE_CRASH_CRITERIA.min_price_drop_percent

\* the volume rule without its price condition
IsVolumeDumpSpikeOnly(historical_record, current_data) ==
    /\ VolumeChange(historical_record, current_data)
          >= RUG_VOLUME_DUMP_CRITERIA.min_volume_spike_percent
    /\ Get(historical_record.volume_1h, 0) >= RUG_VOLUME_DUMP_CRITERIA.min_previous_volume

IsVolumeDump(historical_record, current_data) ==
    /\ VolumeChange(historical_record, current_data)
          >= RUG_VOLUME_DUMP_CRITERIA.min_volume_spike_percent
    /\ PriceChange(historical_record, current_data)
          >= RUG_VOLUME_DUMP_CRITERIA.min_price_drop_percent
    /\ Get(historical_record.volume_1h, 0) >= RUG_VOLUME_DUMP_CRITERIA.min_previous_volume

\* the price rule tried before the liquidity rule
RugTypePriceFirst(historical_record, current_data) ==
    IF IsPriceCrash(historical_record, current_data)
    THEN RUG_PRICE_CRASH_CRITERIA.rug_type
    ELSE IF IsLiquidityDrain(historical_record, current_data)
    THEN RUG_LIQUIDITY_DRAIN_CRITERIA.rug_type
    ELSE IF IsVolumeDump(historical_record, current_data)
    THEN RUG_VOLUME_DUMP_CRITERIA.rug_type
    ELSE "NONE"

\* the three ordered rules, evaluated against one comparison record
RugType(historical_record, current_data) ==
    IF IsLiquidityDrain(historical_record, current_data)
    THEN RUG_LIQUIDITY_DRAIN_CRITERIA.rug_type
    ELSE IF IsPriceCrash(historical_record, current_data)
    THEN RUG_PRICE_CRASH_CRITERIA.rug_type
    ELSE IF IsVolumeDump(historical_record, current_data)
    THEN RUG_VOLUME_DUMP_CRITERIA.rug_type
    ELSE "NONE"

\* _check_rug_indicators(pool_id, current_data); utcnow is datetime.utcnow()
CheckRugIndicators(history_map, pool_id, current_data, utcnow) ==
    LET found == RugHistoricalRecord(history_map, pool_id, current_data) IN
    IF found = <<>> THEN NoRugAlert
    ELSE LET historical_record == found[1] IN
         IF RugTooOld(current_data, historical_record) THEN NoRugAlert
         ELSE LET rug_type == RugType(historical_record, current_data) IN
              IF rug_type = "NONE" THEN NoRugAlert
              ELSE RugAlert(current_data,
                            LiquidityChange(historical_record, current_data),
                            PriceChange(historical_record, current_data),
                            VolumeChange(historical_record, current_data),
                            rug_type, utcnow)

\* ------------------------------------------------------------------------
\* Moonshot classifier
\* ------------------------------------------------------------------------
NoMoonshotAlert ==
    [contract |-> NoContract, tier |-> "NONE", price_change_percent |-> 0,
     volume_24h |-> 0, liquidity |-> 0, transaction_count |-> 0, timestamp |-> 0,
     price_usd |-> 0]

\* contract = base_token_id.split('_', 1)[1], '' when it cannot be extracted
ExtractContract(pool) == pool.base_token_id

MoonLiquidity(pool) ==
    IF Get(pool.reserve_in_usd, 0) = 0 THEN Get(pool.total_reserve_in_usd, 0)
    ELSE Get(pool.reserve_in_usd, 0)

MoonMarketCap(pool) ==
    IF Get(pool.market_cap_usd, 0) /= 0 THEN Get(pool.market_cap_usd, 0)
    ELSE IF Get(pool.fdv_usd, 0) /= 0 THEN Get(pool.fdv_usd, 0)
    ELSE Get(pool.base_token_market_cap_usd, 0)

MoonVolume24h(pool) == Get(pool.volume_usd_h24, 0)

MoonTxCount24h(pool) == Get(pool.tx_buys, 0) + Get(pool.tx_sells, 0)

\* price change of one timeframe from the pool's history, 0 when the history
\* has no record at or before the target time or that record has no price
HistoryPriceChange(history, current_price, current_time, seconds_ago) ==
    LET found == HistoricalRecord(history, current_time - seconds_ago) IN
    IF found /= <<>> /\ found[1].price > 0
    THEN Percent(current_price - found[1].price, found[1].price)
    ELSE 0

\* the provider-reported change of timeframe i (m1, m5, h1, h24)
ApiPriceChange(pool, i) ==
    Get(<<pool.pc_m1, pool.pc_m5, pool.pc_h1, pool.pc_h24>>[i], 0)

UsesHistory(history_map, pool_id) ==
    pool_id /= NoPoolId /\ pool_id \in DOMAIN history_map

\* <<price_change_1m, price_change_5m, price_change_1h, price_change_24h>>
TimeframeChanges(history_map, pool, pool_id, current_time) ==
    IF UsesHistory(history_map, pool_id)
    THEN [i \in 1..4 |->
            HistoryPriceChange(history_map[pool_id], Get(pool.base_token_price_usd, 0),
                               current_time, MoonshotTimeframes[i])]
    ELSE [i \in 1..4 |-> ApiPriceChange(pool, i)]

RECURSIVE BestOf(_, _)
\* for change, timeframe in timeframe_changes: if change > best: best = change
BestOf(changes, best) ==
    IF changes = <<>> THEN best
    ELSE BestOf(Tail(changes), IF Head(changes) > best THEN Head(changes) ELSE best)

BestPriceChange(history_map, pool, pool_id, current_time) ==
    BestOf(TimeframeChanges(history_map, pool, pool_id, current_time), 0)

MeetsCriteria(criteria, liquidity, best_price_change, volume_24h, tx_count_24h, market_cap) ==
    /\ liquidity >= criteria.min_liquidity
    /\ best_price_change >= criteria.min_price_change
    /\ volume_24h >= criteria.min_volume_24h
    /\ tx_count_24h >= criteria.min_tx_count_24h
    /\ market_cap >= criteria.min_market_cap

RECURSIVE LastTier(_, _, _, _, _, _)
\* the list walked to its end, a later match replacing an earlier one
LastTier(criteria_list, liquidity, best_price_change, volume_24h, tx_count_24h, market_cap) ==
    IF criteria_list = <<>> THEN "NONE"
    ELSE LET later == LastTier(Tail(criteria_list), liquidity, best_price_change,
                               volume_24h, tx_count_24h, market_cap) IN
         IF later /= "NONE" THEN later
         ELSE IF MeetsCriteria(Head(criteria_list), liquidity, best_price_change,
                               volume_24h, tx_count_24h, market_cap)
              THEN Head(criteria_list).tier
              ELSE "NONE"

RECURSIVE FirstTier(_, _, _, _, _, _)
\* for criteria in MOONSHOT_CRITERIA_LIST: if (...): return alert
FirstTier(criteria_list, liquidity, best_price_change, volume_24h, tx_count_24h, market_cap) ==
    IF criteria_list = <<>> THEN "NONE"
    ELSE IF MeetsCriteria(Head(criteria_list), liquidity, best_price_change,
                          volume_24h, tx_count_24h, market_cap)
         THEN Head(criteria_list).tier
         ELSE FirstTier(Tail(criteria_list), liquidity, best_price_change,
                        volume_24h, tx_count_24h, market_cap)

\* _check_moonshot_criteria(pool, network, pool_id); current_time is the
\* time.time() read inside it, utcnow the alert's datetime.utcnow()
CheckMoonshotCriteria(history_map, pool, pool_id, current_time, utcnow) ==
    LET best_price_change == BestPriceChange(history_map, pool, pool_id, current_time)
        tier == FirstTier(MOONSHOT_CRITERIA_LIST, MoonLiquidity(pool), best_price_change,
                          MoonVolume24h(pool), MoonTxCount24h(pool), MoonMarketCap(pool))
    IN IF tier = "NONE" THEN NoMoonshotAlert
       ELSE [contract |-> ExtractContract(pool), tier |-> tier,
             price_change_percent |-> best_price_change,
             volume_24h |-> MoonVolume24h(pool), liquidity |-> MoonLiquidity(pool),
             transaction_count |-> MoonTxCount24h(pool), timestamp |-> utcnow,
             price_usd |-> Get(pool.base_token_price_usd, 0)]

\* ------------------------------------------------------------------------
\* State
\* ------------------------------------------------------------------------
VARIABLES
    now,                \* the system clock, time.time(), in seconds
    tz,                 \* local UTC offset of the process, in seconds
    pool_history,       \* BackgroundMonitor.pool_history: pool id -> snapshots
    detected_moonshots, \* contract -> MoonshotAlert
    detected_rugs,      \* contract -> RugAlert
    stats,              \* moonshots_detected / rugs_detected
    moon,               \* the _moonshot_monitor task: position and locals
    rug,                \* the _rug_monitor task: position and locals
    sink,               \* calls of bot_handler.broadcast_alert with an alert
    exams,              \* what the last scan step did with each pool it examined
    running,            \* BackgroundMonitor.running
    market,             \* the provider: the price of the pool at every instant
    calls,              \* RateLimiter.calls
    priority_queue,     \* RateLimiter.priority_queue
    lock,               \* RateLimiter._lock: holder and FIFO waiters
    callers,            \* the tasks inside RateLimiter.acquire
    completions,        \* the times at which acquire recorded a call
    input,              \* the arguments of a classifier call
    output,             \* the result of that call
    cache,              \* GeckoTerminalClient._cache: url -> (data, timestamp)
    requests,           \* the tasks inside GeckoTerminalClient._make_request
    outbound            \* the requests handed to requests.get

monitorVars == <<tz, pool_history, detected_moonshots, detected_rugs, stats,
                 moon, rug, sink, exams, running, market>>
limiterVars == <<calls, priority_queue, lock, callers, completions>>
classifyVars == <<input, output>>
clientVars == <<cache, requests, outbound>>
vars == <<now, monitorVars, limiterVars, classifyVars, clientVars>>

\* ------------------------------------------------------------------------
\* RateLimiter
\* ------------------------------------------------------------------------
Callers == 1..NumCallers
Priorities == {0, 3}

\* a task that is not inside acquire
IdleCaller == [pc |-> "idle", wake_at |-> 0, priority |-> 0]

LimiterInit ==
    /\ calls = <<>>
    /\ priority_queue = <<>>
    /\ lock = [holder |-> 0, waiters |-> <<>>]
    /\ callers = [c \in Callers |-> IdleCaller]
    /\ completions = <<>>

RECURSIVE PruneCalls(_, _, _)
\* while self.calls and self.calls[0] < now - self.time_window: popleft()
PruneCalls(q, t, time_window) ==
    IF q /= <<>> /\ Head(q) < t - time_window
    THEN PruneCalls(Tail(q), t, time_window)
    ELSE q

\* sleep_time = self.time_window - (now - self.calls[0]), 0 when not at the limit
SleepTime(q, t, max_calls, time_window) ==
    IF Len(q) >= max_calls /\ q /= <<>> THEN time_window - (t - Head(q)) ELSE 0

\* the body of "async with self._lock" up to the sleep or to the end:
\* caller c takes the lock at time now, waiters are the tasks still queued
EnterCritical(c, priority, waiters) ==
    LET pruned == PruneCalls(calls, now, RLTimeWindow)
        sleep_time == SleepTime(pruned, now, RLMaxCalls, RLTimeWindow)
    IN IF sleep_time > 0
       THEN /\ calls' = pruned
            /\ callers' = [callers EXCEPT ![c] = [pc |-> "sleeping",
                                                   wake_at |-> now + sleep_time,
                                                   priority |-> priority]]
            /\ lock' = [holder |-> c, waiters |-> waiters]
            /\ UNCHANGED completions
       ELSE /\ calls' = Append(pruned, now)
            /\ completions' = Append(completions, now)
            /\ callers' = [callers EXCEPT ![c] = IdleCaller]
            /\ lock' = [holder |-> 0, waiters |-> waiters]

\* a task that is not inside _make_request
IdleRequest == [pc |-> "idle", url |-> "", result |-> "None"]

\* acquire returns into _make_request, which hands the request to
\* requests.get in the executor before it suspends again; reqs is the table
\* of requests with caller c's entry as it is while c is inside acquire
AcquireReturns(reqs, c) ==
    IF reqs[c].pc = "acquiring" /\ callers'[c].pc = "idle"
    THEN /\ requests' = [reqs EXCEPT ![c].pc = "requesting"]
         /\ outbound' = Append(outbound, [url |-> reqs[c].url, at |-> now])
    ELSE /\ requests' = reqs
         /\ outbound' = outbound

\* acquire(priority) up to its first suspension: put on the priority queue,
\* then take the lock or queue up for it
AcquireCall(c, priority) ==
    /\ callers[c].pc = "idle"
    /\ Len(priority_queue) < MaxRLCalls
    /\ priority_queue' = Append(priority_queue, <<priority, now>>)
    /\ IF lock.holder = 0 /\ lock.waiters = <<>>
       THEN EnterCritical(c, priority, <<>>)
       ELSE /\ lock' = [lock EXCEPT !.waiters = Append(@, c)]
            /\ callers' = [callers EXCEPT ![c] = [pc |-> "waiting", wake_at |-> 0,
                                                   priority |-> priority]]
            /\ UNCHANGED <<calls, completions>>

\* acquire(priority) is called by a task that is not inside _make_request
Acquire(c, priority) ==
    /\ requests[c].pc = "idle"
    /\ AcquireCall(c, priority)
    /\ UNCHANGED <<now, monitorVars, classifyVars, clientVars>>

\* the lock is free and is handed to the first waiter
LockGranted(c) ==
    /\ lock.holder = 0
    /\ lock.waiters /= <<>>
    /\ Head(lock.waiters) = c
    /\ EnterCritical(c, callers[c].priority, Tail(lock.waiters))
    /\ AcquireReturns(requests, c)
    /\ UNCHANGED <<now, priority_queue, cache, monitorVars, classifyVars>>

\* the sleeper records its call and returns without releasing the lock
WakeUpKeepsLock(c) ==
    /\ callers[c].pc = "sleeping"
    /\ now >= callers[c].wake_at
    /\ calls' = Append(PruneCalls(calls, now, RLTimeWindow), now)
    /\ completions' = Append(completions, now)
    /\ callers' = [callers EXCEPT ![c] = IdleCaller]
    /\ AcquireReturns(requests, c)
    /\ UNCHANGED <<now, lock, priority_queue, cache, monitorVars, classifyVars>>

\* asyncio.sleep(sleep_time) returns: clean up again, record the call,
\* release the lock
WakeUp(c) ==
    /\ callers[c].pc = "sleeping"
    /\ now >= callers[c].wake_at
    /\ calls' = Append(PruneCalls(calls, now, RLTimeWindow), now)
    /\ completions' = Append(completions, now)
    /\ callers' = [callers EXCEPT ![c] = IdleCaller]
    /\ lock' = [lock EXCEPT !.holder = 0]
    /\ AcquireReturns(requests, c)
    /\ UNCHANGED <<now, priority_queue, cache, monitorVars, classifyVars>>

LimiterTick ==
    /\ now < MaxRLTime
    /\ now' = now + 1
    /\ UNCHANGED <<monitorVars, limiterVars, classifyVars, clientVars>>

\* ------------------------------------------------------------------------
\* GeckoTerminalClient._make_request
\* ------------------------------------------------------------------------
\* self._cache_ttl
cache_ttl == 300

Urls == {"u1", "u2"}
\* what response.json() yields for a well-formed body
Payloads == {"v1", "v2"}
\* status 0 stands for requests.get raising (timeout, connection error)
FailureStatuses == {0, 404, 429, 500}
\* the provider's answers: a well-formed 200, a 200 whose body does not
\* parse, an error status or an exception
Responses ==
    [status : {200}, data : Payloads \cup {"unparsable"}]
        \cup [status : FailureStatuses, data : {"error"}]

ClientInit ==
    /\ cache = <<>>
    /\ requests = [c \in Callers |-> IdleRequest]
    /\ outbound = <<>>

\* if cache_key in self._cache: ... if time.time() - timestamp < self._cache_ttl
CacheHit(url) ==
    /\ url \in DOMAIN cache
    /\ now - cache[url].timestamp < cache_ttl

CachesEveryResponse(response) == TRUE
\* if response.status_code == 200: data = response.json(), which raises on
\* a body that does not parse
Cacheable(response) == response.status = 200 /\ response.data \in Payloads

\* _make_request(url, priority) up to its first suspension: return the
\* cached data, or go through rate_limiter.acquire
MakeRequest(c, url, priority) ==
    /\ requests[c].pc = "idle"
    /\ IF CacheHit(url)
       THEN /\ requests' = [requests EXCEPT ![c] =
                               [pc |-> "idle", url |-> url,
                                result |-> cache[url].data]]
            /\ UNCHANGED <<limiterVars, outbound>>
       ELSE /\ Len(priority_queue) < MaxRequests
            /\ AcquireCall(c, priority)
            /\ AcquireReturns([requests EXCEPT ![c] =
                                  [pc |-> "acquiring", url |-> url,
                                   result |-> "None"]], c)
    /\ UNCHANGED <<now, cache, monitorVars, classifyVars>>

\* the executor's requests.get is done: a successful response is cached and
\* returned, everything else returns None
Respond(c, response) ==
    /\ requests[c].pc = "requesting"
    /\ IF Cacheable(response)
       THEN /\ cache' = (requests[c].url :> [data |-> response.data,
                                              timestamp |-> now]) @@ cache
            /\ requests' = [requests EXCEPT ![c].pc = "idle",
                                            ![c].result = response.data]
       ELSE /\ cache' = cache
            /\ requests' = [requests EXCEPT ![c].pc = "idle",
                                            ![c].result = "None"]
    /\ UNCHANGED <<now, outbound, monitorVars, limiterVars, classifyVars>>

\* the instants at which the clock is observed by the client: the limiter's
\* first window and the moments around the expiry of a response cached at 0
RequestTimes == {0, RLTimeWindow, cache_ttl - 1, cache_ttl}

RequestTick ==
    /\ \E t \in RequestTimes : t > now /\ now' = t
    /\ UNCHANGED <<monitorVars, limiterVars, classifyVars, clientVars>>

\* ------------------------------------------------------------------------
\* BackgroundMonitor: shared pieces of the two scans
\* ------------------------------------------------------------------------
\* the instants at which the clock is observed
TimePoints == {0, 60, 120, 3780}
\* UTC offsets of the host's local time zone
TzOffsets == {0 - 3600, 0, 3600}

\* alert.timestamp.timestamp(): the alert's timestamp is the naive
\* datetime.utcnow(), which .timestamp() reads as local time
NaiveTimestamp(utc_seconds) == utc_seconds - tz

\* current_liquidity of both scans: reserve_in_usd, else total_reserve_in_usd
ScanLiquidity(pool) ==
    IF Get(pool.reserve_in_usd, 0) = 0 THEN Get(pool.total_reserve_in_usd, 0)
    ELSE Get(pool.reserve_in_usd, 0)

\* pool_data of _scan_network_for_rugs
RugPoolData(pool, current_time) ==
    [timestamp |-> current_time, liquidity |-> ScanLiquidity(pool),
     price |-> Get(pool.base_token_price_usd, 0),
     volume_1h |-> Get(pool.volume_usd_h1, 0), contract |-> ExtractContract(pool)]

\* pool_data of _scan_network_for_moonshots: it has no volume_1h key
MoonPoolData(pool, current_time) ==
    [timestamp |-> current_time, liquidity |-> ScanLiquidity(pool),
     price |-> Get(pool.base_token_price_usd, 0),
     volume_1h |-> Absent, contract |-> ExtractContract(pool)]

\* self.pool_history[pool_id].append(pool_data)  (a defaultdict(list))
AppendHistory(history_map, pool_id, pool_data) ==
    IF pool_id \in DOMAIN history_map
    THEN [history_map EXCEPT ![pool_id] = Append(@, pool_data)]
    ELSE (pool_id :> <<pool_data>>) @@ history_map

\* one registry for both classes: a record of either class counts
InCooldownAnyClass(detected, contract, current_time, cooldown) ==
    LET both == detected @@ detected_rugs @@ detected_moonshots IN
    /\ contract \in DOMAIN both
    /\ current_time - NaiveTimestamp(both[contract].timestamp) < cooldown

\* "Skip if already detected recently"
InCooldown(detected, contract, current_time, cooldown) ==
    /\ contract \in DOMAIN detected
    /\ current_time - NaiveTimestamp(detected[contract].timestamp) < cooldown

\* the store into the detected map left out
RecordAlertLost(detected, contract, alert) == detected

\* self.detected_rugs[contract] = rug_alert / self.detected_moonshots[...] = ...
RecordAlert(detected, contract, alert) == (contract :> alert) @@ detected

\* bot_handler.broadcast_alert(message, buttons, alert_context) is called;
\* recorded tells whether the alert is in the class's map at that moment
SinkCall(kind, alert, detected) ==
    [kind |-> kind, contract |-> alert.contract, timestamp |-> alert.timestamp,
     recorded |-> alert.contract \in DOMAIN detected /\ detected[alert.contract] = alert]

RECURSIVE Dedupe(_, _)
\* "Deduplicate pools by pool_id": the first record of every truthy id
Dedupe(all_pools, seen) ==
    IF all_pools = <<>> THEN <<>>
    ELSE IF Head(all_pools).id /= NoPoolId /\ Head(all_pools).id \notin seen
         THEN <<Head(all_pools)>> \o Dedupe(Tail(all_pools), seen \cup {Head(all_pools).id})
         ELSE Dedupe(Tail(all_pools), seen)

\* _cleanup_old_history
CleanupOldHistory(history_map) ==
    LET kept == [p \in DOMAIN history_map |->
                    IF Len(history_map[p]) > HISTORY_KEEP
                    THEN SubSeq(SortedNewestFirst(history_map[p]), 1, HISTORY_KEEP)
                    ELSE history_map[p]]
        live == {p \in DOMAIN kept : kept[p] /= <<>>}
    IN [p \in live |-> kept[p]]

PriorTimestamp(detected, contract) ==
    IF contract \in DOMAIN detected THEN detected[contract].timestamp ELSE Absent

\* what a scan did with one pool (observation only, no program state):
\* lookups are the history searches of the classifier, each with its target
\* time and the record it selected (<<record>>, or <<>> for none)
Exam(kind, pool, scan_time, detected, classified, matches, fired, result, history, lookups) ==
    [kind |-> kind, pool |-> pool, contract |-> ExtractContract(pool),
     scan_time |-> scan_time,
     prior_ts |-> PriorTimestamp(detected, ExtractContract(pool)),
     classified |-> classified, matches |-> matches, fired |-> fired,
     result |-> result, history |-> history, lookups |-> lookups]

RugLookups(history_map, pool_id, current_data) ==
    IF HasRugHistory(history_map, pool_id)
    THEN {[target |-> current_data.timestamp - RUG_LOOKBACK,
           found |-> RugHistoricalRecord(history_map, pool_id, current_data)]}
    ELSE {}

MoonLookups(history_map, pool_id, current_time) ==
    IF UsesHistory(history_map, pool_id)
    THEN {[target |-> current_time - MoonshotTimeframes[i],
           found |-> HistoricalRecord(history_map[pool_id],
                                      current_time - MoonshotTimeframes[i])] : i \in 1..4}
    ELSE {}

\* ------------------------------------------------------------------------
\* _scan_network_for_rugs: the pool loop
\* A scan state st carries what the loop reads and writes: pool_history, the
\* class's detected map, its stats counter, the sink and the observations.
\* ------------------------------------------------------------------------
\* float(attrs.get(...)) raises on a value that is not a number; the rug
\* scan converts after its cooldown check, the moonshot scan before it
Raises(pool) == pool.base_token_price_usd = Malformed

RugStep(st, pool, current_time) ==
    LET contract == ExtractContract(pool)
        pool_data == RugPoolData(pool, current_time)
        appended == AppendHistory(st.pool_history, pool.id, pool_data)
        rug_alert == CheckRugIndicators(appended, pool.id, pool_data, now)
        base == RugLookups(appended, pool.id, pool_data)
    IN IF contract = NoContract THEN st
       ELSE IF InCooldown(st.detected, contract, current_time, rug_cooldown)
       THEN [st EXCEPT !.exams = @ \cup
                {Exam("rug", pool, current_time, st.detected, FALSE,
                      ~Raises(pool) /\ rug_alert /= NoRugAlert, FALSE, "NONE",
                      appended[pool.id], {})}]
       ELSE IF Raises(pool) THEN [st EXCEPT !.failed = TRUE]
       ELSE IF rug_alert = NoRugAlert
       THEN [st EXCEPT !.pool_history = appended,
                       !.exams = @ \cup
                {Exam("rug", pool, current_time, st.detected, TRUE,
                      FALSE, FALSE, "NONE", appended[pool.id], base)}]
       ELSE LET recorded == RecordAlert(st.detected, contract, rug_alert) IN
            [pool_history |-> appended,
             detected |-> recorded,
             count |-> st.count + 1,
             sink |-> Append(st.sink, SinkCall("rug", rug_alert, recorded)),
             exams |-> st.exams \cup
                {Exam("rug", pool, current_time, st.detected, TRUE,
                      TRUE, TRUE, rug_alert.rug_type, appended[pool.id], base)},
             alerted |-> TRUE, failed |-> FALSE, rest |-> <<>>]

RECURSIVE RugLoop(_, _, _)
\* after one pool: stop at an await (a broadcast) or an exception, else go on
RugAfter(next, pools, current_time) ==
    IF next.alerted THEN [next EXCEPT !.rest = pools]
    ELSE IF next.failed THEN next
    ELSE RugLoop(next, pools, current_time)

\* for pool in unique_pools: ... up to the first await (a broadcast), the
\* first exception or the end
RugLoop(st, pools, current_time) ==
    IF pools = <<>> THEN st
    ELSE RugAfter(RugStep(st, Head(pools), current_time), Tail(pools), current_time)

\* ------------------------------------------------------------------------
\* _scan_network_for_moonshots: the pool loop
\* ------------------------------------------------------------------------
MoonStep(st, pool, current_time) ==
    LET contract == ExtractContract(pool)
        pool_data == MoonPoolData(pool, current_time)
        appended == AppendHistory(st.pool_history, pool.id, pool_data)
        moonshot_alert == CheckMoonshotCriteria(appended, pool, pool.id, now, now)
        base == MoonLookups(appended, pool.id, now)
    IN IF contract = NoContract THEN st
       ELSE IF Raises(pool) THEN [st EXCEPT !.failed = TRUE]
       ELSE IF InCooldown(st.detected, contract, current_time, moonshot_cooldown)
       THEN [st EXCEPT !.pool_history = appended,
                       !.exams = @ \cup
                {Exam("moon", pool, current_time, st.detected, FALSE,
                      moonshot_alert /= NoMoonshotAlert, FALSE, "NONE",
                      appended[pool.id], {})}]
       ELSE IF moonshot_alert = NoMoonshotAlert
       THEN [st EXCEPT !.pool_history = appended,
                       !.exams = @ \cup
                {Exam("moon", pool, current_time, st.detected, TRUE,
                      FALSE, FALSE, "NONE", appended[pool.id], base)}]
       ELSE \* stored by the scan, stored again by _broadcast_moonshot_alert,
            \* then handed to the sink
            LET recorded == RecordAlert(RecordAlert(st.detected, contract, moonshot_alert),
                                        moonshot_alert.contract, moonshot_alert) IN
            [pool_history |-> appended,
             detected |-> recorded,
             count |-> st.count + 1,
             sink |-> Append(st.sink, SinkCall("moon", moonshot_alert, recorded)),
             exams |-> st.exams \cup
                {Exam("moon", pool, current_time, st.detected, TRUE,
                      TRUE, TRUE, moonshot_alert.tier, appended[pool.id], base)},
             alerted |-> TRUE, failed |-> FALSE, rest |-> <<>>]

RECURSIVE MoonLoop(_, _, _)
MoonAfter(next, pools, current_time) ==
    IF next.alerted THEN [next EXCEPT !.rest = pools]
    ELSE IF next.failed THEN next
    ELSE MoonLoop(next, pools, current_time)

MoonLoop(st, pools, current_time) ==
    IF pools = <<>> THEN st
    ELSE MoonAfter(MoonStep(st, Head(pools), current_time), Tail(pools), current_time)

\* ------------------------------------------------------------------------
\* The provider, as the monitor sees it
\* ------------------------------------------------------------------------
\* price paths of the one pool the provider lists; Down marks an instant at
\* which the provider returns no pools
Down == 0
Crash == (0 :> 100) @@ (60 :> 30) @@ (120 :> 9) @@ (3780 :> 2)
Pump == (0 :> 2) @@ (60 :> 9) @@ (120 :> 30) @@ (3780 :> 100)
Swing == (0 :> 10) @@ (60 :> 3) @@ (120 :> 10) @@ (3780 :> 10)
Outage == (0 :> 10) @@ (60 :> Down) @@ (120 :> 10) @@ (3780 :> Down)
Markets == {Crash, Pump, Swing, Outage}
\* a path on which the provider once sends a price that is not a number
Broken == (0 :> 10) @@ (60 :> 3) @@ (120 :> Malformed) @@ (3780 :> 10)
\* a path on which the provider lists a second pool behind the first
Crowded == (0 :> 10) @@ (60 :> 3) @@ (120 :> 12) @@ (3780 :> 12)
FaultMarkets == {Broken, Outage, Crowded}

\* the record of pool "p1" of token "c1" at a given price
MonitorPool(price) == MkPool("p1", "c1", price, 50000, 2000, 50000, 100, 200000, Absent)

\* the record of pool "p2" of token "c2", whose price does not move
SecondPool == MkPool("p2", "c2", 5, 50000, 2000, 50000, 100, 200000, Absent)

RECURSIVE Repeat(_, _)
Repeat(x, n) == IF n = 0 THEN <<>> ELSE <<x>> \o Repeat(x, n - 1)

\* all_pools of one network scan: what the provider's queries returned; the
\* same pool can come back from several queries
Feeds(network, t) ==
    IF network = "eth" /\ market[t] /= Down
    THEN {Repeat(MonitorPool(market[t]), n) \o
              (IF market = Crowded THEN <<SecondPool>> ELSE <<>>) : n \in 1..MaxFeedLen}
    ELSE {<<>>}

AllFeeds ==
    UNION {Feeds(FaultNetworks[n], t) : n \in 1..Len(FaultNetworks), t \in TimePoints}

\* ------------------------------------------------------------------------
\* BackgroundMonitor: the two scan tasks
\* ------------------------------------------------------------------------
\* a task's position and locals: nets is the monitor loop's network list,
\* fault the outcome of the network scan that last returned, usable whether
\* a network of this cycle gave pools that were processed, alert the
\* contract being broadcast, dispatch how the cycle's last broadcast ended,
\* tasks the number of tasks of the class that start() created and that
\* have not been cancelled, scan_count the cycles the class has begun
TaskNone == [pc |-> "none", scan_count |-> 0, nets |-> <<>>, net |-> 0,
             pool_type |-> "", current_time |-> 0, pools |-> <<>>, alert |-> "",
             dispatch |-> "", fault |-> "none", usable |-> FALSE,
             slept_at |-> 0, sleep_for |-> 0, tasks |-> 0]

MonitorWith(offsets, markets) ==
    /\ tz \in offsets
    /\ pool_history = <<>>
    /\ detected_moonshots = <<>>
    /\ detected_rugs = <<>>
    /\ stats = [moonshots_detected |-> 0, rugs_detected |-> 0]
    /\ moon = TaskNone
    /\ rug = TaskNone
    /\ sink = <<>>
    /\ exams = {}
    /\ running = FALSE
    /\ market \in markets

MonitorInit == MonitorWith(TzOffsets, Markets)

\* start() past its guard: both scan tasks are created and run to their
\* first fetch
Launch(nets) ==
    /\ running' = TRUE
    /\ moon' = [TaskNone EXCEPT !.pc = "fetching", !.scan_count = moon.scan_count + 1,
                                !.nets = nets, !.net = 1, !.pool_type = "trending",
                                !.tasks = moon.tasks + 1]
    /\ rug' = [TaskNone EXCEPT !.pc = "fetching", !.scan_count = rug.scan_count + 1,
                               !.nets = nets, !.net = 1, !.tasks = rug.tasks + 1]
    /\ UNCHANGED <<now, tz, pool_history, detected_moonshots, detected_rugs, stats,
                   sink, exams, market, limiterVars, classifyVars, clientVars>>

\* the first start() of a monitor
StartWith(nets) ==
    /\ ~running
    /\ moon.pc = "none"
    /\ Launch(nets)

Start == StartWith(networks)

FaultStart == StartWith(FaultNetworks)

Tick ==
    /\ running
    /\ \E t \in TimePoints : t > now /\ now' = t
    /\ UNCHANGED <<monitorVars, limiterVars, classifyVars, clientVars>>

\* the monitor loop's except branch sleeps this long
ERROR_RETRY_SLEEP == 60

\* an exception of the pool loop leaves the network scan
EscapesOnFailure(st) == st.failed

\* except Exception in _scan_network_for_*: the exception is logged, the
\* scan returns normally and nothing reaches the monitor loop
Escapes(st) == FALSE

DispatchOutcomes == {"delivered", "failed"}

\* a failed broadcast takes the alert's record back
RolledBackOnFailure(detected, contract, outcome) ==
    IF outcome = "failed"
    THEN [c \in DOMAIN detected \ {contract} |-> detected[c]]
    ELSE detected

\* _broadcast_*_alert: the class's detected map when the call returns; the
\* except branch only logs
AfterDispatch(detected, contract, outcome) == detected

\* how the network scan that just returned ended
ScanFault(task, st, pools, origin) ==
    IF st.failed THEN "error"
    ELSE IF origin /= "fetched" THEN task.fault
    ELSE IF pools = <<>> THEN "empty"
    ELSE "none"

\* the task's locals after a run of the pool loop
Seen(task, st, pools, origin) ==
    [task EXCEPT !.fault = ScanFault(task, st, pools, origin),
                 !.usable = @ \/ (origin = "fetched" /\ pools /= <<>> /\ ~st.failed),
                 !.dispatch = IF origin = "fetched" THEN @ ELSE origin,
                 !.current_time = 0, !.pools = <<>>, !.alert = ""]

\* the task at the await of a broadcast
AtDispatch(task, st, current_time) ==
    [task EXCEPT !.pc = "dispatching", !.pools = st.rest,
                 !.current_time = current_time,
                 !.alert = st.sink[Len(st.sink)].contract]

\* the rug task's state when the pool loop has run to its next await
RugCommit(st, pools, current_time, origin) ==
    LET last == rug.net = Len(rug.nets)
        seen == Seen(rug, st, pools, origin)
    IN /\ detected_rugs' = st.detected
       /\ stats' = [stats EXCEPT !.rugs_detected = st.count]
       /\ sink' = st.sink
       /\ exams' = st.exams
       /\ pool_history' = IF ~st.alerted /\ ~Escapes(st) /\ last
                          THEN CleanupOldHistory(st.pool_history)
                          ELSE st.pool_history
       /\ rug' = IF st.alerted
                 THEN AtDispatch(seen, st, current_time)
                 ELSE IF Escapes(st)
                 THEN [seen EXCEPT !.pc = "sleeping", !.net = 0, !.slept_at = now,
                                   !.sleep_for = ERROR_RETRY_SLEEP]
                 ELSE IF ~last
                 THEN [seen EXCEPT !.pc = "fetching", !.net = @ + 1]
                 ELSE [seen EXCEPT !.pc = "sleeping", !.net = 0, !.slept_at = now,
                                   !.sleep_for = rug_scan_interval]
       /\ UNCHANGED <<now, tz, detected_moonshots, moon, running, market,
                      limiterVars, classifyVars, clientVars>>

\* the rug task runs from the pool loop to its next await
RugRun(detected, pools, current_time, origin) ==
    RugCommit(RugLoop([pool_history |-> pool_history, detected |-> detected,
                       count |-> stats.rugs_detected, sink |-> sink, exams |-> {},
                       alerted |-> FALSE, failed |-> FALSE, rest |-> <<>>],
                      pools, current_time),
              pools, current_time, origin)

\* the provider's answers for a network arrive: dedupe, stamp, loop
RugFetched(all_pools) ==
    /\ rug.pc = "fetching"
    /\ all_pools \in Feeds(rug.nets[rug.net], now)
    /\ RugRun(detected_rugs, Dedupe(all_pools, {}), now, "fetched")

\* _broadcast_rug_alert returns (delivered, or failed and logged)
RugDispatched(outcome) ==
    /\ rug.pc = "dispatching"
    /\ RugRun(AfterDispatch(detected_rugs, rug.alert, outcome), rug.pools,
              rug.current_time, outcome)

\* asyncio.sleep returns and the next cycle starts
RugWake ==
    /\ rug.pc = "sleeping"
    /\ now >= rug.slept_at + rug.sleep_for
    /\ rug.scan_count < MaxRugScans
    /\ rug' = [rug EXCEPT !.pc = "fetching", !.scan_count = @ + 1, !.net = 1,
                          !.dispatch = "", !.fault = "none", !.usable = FALSE,
                          !.slept_at = 0, !.sleep_for = 0]
    /\ UNCHANGED <<now, tz, pool_history, detected_moonshots, detected_rugs, stats,
                   moon, sink, exams, running, market, limiterVars, classifyVars, clientVars>>

\* the moonshot task's state when the pool loop has run to its next await
MoonCommit(st, pools, current_time, origin) ==
    LET last == moon.net = Len(moon.nets)
        seen == Seen(moon, st, pools, origin)
    IN /\ detected_moonshots' = st.detected
       /\ stats' = [stats EXCEPT !.moonshots_detected = st.count]
       /\ sink' = st.sink
       /\ exams' = st.exams
       /\ pool_history' = st.pool_history
       /\ moon' = IF st.alerted
                  THEN AtDispatch(seen, st, current_time)
                  ELSE IF Escapes(st)
                  THEN [seen EXCEPT !.pc = "sleeping", !.pool_type = "", !.net = 0,
                                    !.slept_at = now,
                                    !.sleep_for = ERROR_RETRY_SLEEP]
                  ELSE IF moon.pool_type = "trending"
                  THEN [seen EXCEPT !.pc = "fetching", !.pool_type = "new"]
                  ELSE IF ~last
                  THEN [seen EXCEPT !.pc = "fetching", !.pool_type = "trending",
                                    !.net = @ + 1]
                  ELSE [seen EXCEPT !.pc = "sleeping", !.pool_type = "", !.net = 0,
                                    !.slept_at = now,
                                    !.sleep_for = moonshot_scan_interval]
       /\ UNCHANGED <<now, tz, detected_rugs, rug, running, market,
                      limiterVars, classifyVars, clientVars>>

\* the moonshot task runs from the pool loop to its next await
MoonRun(detected, pools, current_time, origin) ==
    MoonCommit(MoonLoop([pool_history |-> pool_history, detected |-> detected,
                         count |-> stats.moonshots_detected, sink |-> sink,
                         exams |-> {}, alerted |-> FALSE, failed |-> FALSE,
                         rest |-> <<>>],
                        pools, current_time),
               pools, current_time, origin)

MoonFetched(all_pools) ==
    /\ moon.pc = "fetching"
    /\ all_pools \in Feeds(moon.nets[moon.net], now)
    /\ MoonRun(detected_moonshots, Dedupe(all_pools, {}), now, "fetched")

MoonDispatched(outcome) ==
    /\ moon.pc = "dispatching"
    /\ MoonRun(AfterDispatch(detected_moonshots, moon.alert, outcome), moon.pools,
               moon.current_time, outcome)

MoonWake ==
    /\ moon.pc = "sleeping"
    /\ now >= moon.slept_at + moon.sleep_for
    /\ moon.scan_count < MaxMoonScans
    /\ moon' = [moon EXCEPT !.pc = "fetching", !.scan_count = @ + 1, !.net = 1,
                            !.pool_type = "trending", !.dispatch = "",
                            !.fault = "none", !.usable = FALSE,
                            !.slept_at = 0, !.sleep_for = 0]
    /\ UNCHANGED <<now, tz, pool_history, detected_moonshots, detected_rugs, stats,
                   rug, sink, exams, running, market, limiterVars, classifyVars, clientVars>>

ClassifyIdle == input = <<>> /\ output = <<>>

MonitorIdle ==
    /\ tz = 0
    /\ pool_history = <<>>
    /\ detected_moonshots = <<>>
    /\ detected_rugs = <<>>
    /\ stats = [moonshots_detected |-> 0, rugs_detected |-> 0]
    /\ moon = TaskNone
    /\ rug = TaskNone
    /\ sink = <<>>
    /\ exams = {}
    /\ running = FALSE
    /\ market = Crash

Init == now = 0 /\ MonitorInit /\ LimiterInit /\ ClientInit /\ ClassifyIdle

Next ==
    \/ Start
    \/ Tick
    \/ \E all_pools \in AllFeeds : RugFetched(all_pools)
    \/ RugDispatched("delivered")
    \/ RugWake
    \/ \E all_pools \in AllFeeds : MoonFetched(all_pools)
    \/ MoonDispatched("delivered")
    \/ MoonWake

Spec == Init /\ [][Next]_vars

\* the monitor over two networks, with a provider that fails or sends a
\* malformed price and a sink that can fail
InitFault == now = 0 /\ MonitorWith({0}, FaultMarkets) /\ LimiterInit /\ ClientInit /\ ClassifyIdle

NextFault ==
    \/ FaultStart
    \/ Tick
    \/ \E all_pools \in AllFeeds : RugFetched(all_pools)
    \/ \E outcome \in DispatchOutcomes : RugDispatched(outcome)
    \/ RugWake
    \/ \E all_pools \in AllFeeds : MoonFetched(all_pools)
    \/ \E outcome \in DispatchOutcomes : MoonDispatched(outcome)
    \/ MoonWake

SpecFault == InitFault /\ [][NextFault]_vars

\* the rate limiter on its own
InitRL == now = 0 /\ MonitorIdle /\ LimiterInit /\ ClientInit /\ ClassifyIdle

NextRL ==
    \/ \E c \in Callers, priority \in Priorities : Acquire(c, priority)
    \/ \E c \in Callers : LockGranted(c)
    \/ \E c \in Callers : WakeUp(c)
    \/ LimiterTick

SpecRL == InitRL /\ [][NextRL]_vars

\* ------------------------------------------------------------------------
\* Properties of the monitor (specification Spec)
\* ------------------------------------------------------------------------
\* C2: once an alert of a class is recorded for a contract at time t, a scan
\* of that class that examines a pool of the contract at a time t' with
\* t' - t < 3600 records and dispatches no new alert
C2_CooldownSuppresses ==
    \A e \in exams :
        (e.prior_ts /= Absent /\ e.scan_time - e.prior_ts < 3600) => ~e.fired

\* C3: a scan that examines, more than 3600 s after the recorded alert, a
\* pool of the contract whose metrics satisfy the classifier records and
\* dispatches a new alert
C3_FiresAfterCooldown ==
    \A e \in exams :
        (e.prior_ts /= Absent /\ e.scan_time - e.prior_ts > 3600 /\ e.matches)
            => e.fired

\* C4: every alert handed to the sink is already stored in its class's
\* detected map when the broadcast call begins, and stays there
C4_RecordThenDispatch ==
    \A i \in 1..Len(sink) :
        /\ sink[i].recorded
        /\ sink[i].kind = "rug" => sink[i].contract \in DOMAIN detected_rugs
        /\ sink[i].kind = "moon" => sink[i].contract \in DOMAIN detected_moonshots

C4_Witness ==
    /\ \E i \in 1..Len(sink) : sink[i].kind = "rug" /\ sink[i].recorded
    /\ \E i \in 1..Len(sink) : sink[i].kind = "moon" /\ sink[i].recorded

\* the snapshots of a history that lie at or before the rug lookback target
UsableSnapshots(e) ==
    {i \in 1..Len(e.history) : e.history[i].timestamp <= e.scan_time - 60}

\* C10: the rug classifier returns none when the history has fewer than two
\* snapshots, none at or before now - 60, or the most recent of those is
\* more than 120 s older than the current one; an alert is always computed
\* against a snapshot between 60 and 120 s old
C10_RugNeedsComparison ==
    \A e \in exams :
        (e.kind = "rug" /\ e.classified) =>
            /\ ( \/ Len(e.history) < 2
                 \/ UsableSnapshots(e) = {}
                 \/ \A i \in UsableSnapshots(e) :
                       e.scan_time - e.history[i].timestamp > 120 ) => ~e.fired
            /\ e.fired =>
                 \E l \in e.lookups :
                    /\ l.found /= <<>>
                    /\ e.scan_time - l.found[1].timestamp >= 60
                    /\ e.scan_time - l.found[1].timestamp <= 120

\* a rug classification that found a comparison record showing a crash, too
\* old to be used
C10_Witness ==
    \E e \in exams :
        /\ e.kind = "rug" /\ e.classified /\ ~e.fired
        /\ \E l \in e.lookups :
              /\ l.found /= <<>>
              /\ e.scan_time - l.found[1].timestamp > 120
              /\ l.found[1].price * 40 >= e.pool.base_token_price_usd * 100

\* C14: once a sweep has run, no pool is still tracked whose last snapshot
\* was appended more than 3600 s (sixty scan cycles) before that sweep
C14_StaleEvicted ==
    rug.pc = "sleeping" =>
        \A p \in DOMAIN pool_history :
            \E i \in 1..Len(pool_history[p]) :
                pool_history[p][i].timestamp >= rug.slept_at - 3600

C23_LookbackBounded ==
    \A e \in exams :
        e.kind = "moon" =>
            \A l \in e.lookups :
                (l.found /= <<>> /\ l.found[1].price > 0) =>
                    l.target - l.found[1].timestamp <= MAX_HISTORICAL_DATA_AGE

\* C27: within one cycle of a scan class a pool id gets at most one snapshot
\* and one classification: the moonshot task's scan of the new-pools list
\* examines no pool that its scan of the trending lists, the step before in
\* the same cycle, has examined
C27_OncePerCycle ==
    [][ (moon.pc = "fetching" /\ moon.pool_type = "new" /\ moon' /= moon) =>
            \A e \in exams, f \in exams' :
                (e.kind = "moon" /\ f.kind = "moon") => f.pool.id /= e.pool.id ]_vars

\* C21: the moonshot classifier returns no alert for a pool whose contract
\* has a rug alert stored in detected_rugs
C21_RuggedNeverMoonshot ==
    \A e \in exams :
        (e.kind = "moon" /\ e.contract \in DOMAIN detected_rugs) => e.result = "NONE"

\* ------------------------------------------------------------------------
\* Properties of the monitor under faults (specification SpecFault)
\* ------------------------------------------------------------------------
\* the network scan that returns in this step found no pools or raised
FailedScan(task, after) ==
    /\ task.pc \in {"fetching", "dispatching"}
    /\ after /= task
    /\ after.pc /= "dispatching"
    /\ after.fault \in {"empty", "error"}

\* the task goes on with the scan that follows in its cycle, or sleeps the
\* scan interval after the last one
Continues(task, after, interval) ==
    /\ after.scan_count = task.scan_count
    /\ IF task.pool_type = "trending"
       THEN after.pc = "fetching" /\ after.net = task.net /\ after.pool_type = "new"
       ELSE IF task.net < Len(task.nets)
       THEN after.pc = "fetching" /\ after.net = task.net + 1
       ELSE after.pc = "sleeping" /\ after.slept_at = now /\ after.sleep_for = interval

\* C15: a network scan that gets no pools or raises while processing them
\* does not end the cycle: the task goes on to the remaining networks, sleeps
\* the scan interval after the last one, and a started task never stops
C15_FailureContained ==
    [][ /\ FailedScan(rug, rug') => Continues(rug, rug', rug_scan_interval)
        /\ FailedScan(moon, moon') => Continues(moon, moon', moonshot_scan_interval)
        /\ running => rug'.pc /= "none" /\ moon'.pc /= "none" ]_vars

\* the first network's scan raised and the task scans the second one; the
\* other task, after a cycle of failed scans, is in a later cycle
C15_Witness ==
    /\ rug.pc = "fetching" /\ rug.net = 2 /\ rug.fault = "error"
    /\ moon.scan_count > 1

\* C16: when a broadcast fails, the alert's record stays in its class's map
\* as it was stored, and the task goes on with the rest of the cycle
C16_NoRollback ==
    [][ /\ (rug.pc = "dispatching" /\ rug' /= rug /\ rug'.dispatch = "failed") =>
              /\ rug.alert \in DOMAIN detected_rugs'
              /\ detected_rugs'[rug.alert] = detected_rugs[rug.alert]
              /\ rug'.pc \in {"fetching", "dispatching", "sleeping"}
              /\ rug'.scan_count = rug.scan_count
        /\ (moon.pc = "dispatching" /\ moon' /= moon /\ moon'.dispatch = "failed") =>
              /\ moon.alert \in DOMAIN detected_moonshots'
              /\ detected_moonshots'[moon.alert] = detected_moonshots[moon.alert]
              /\ moon'.pc \in {"fetching", "dispatching", "sleeping"}
              /\ moon'.scan_count = moon.scan_count ]_vars

\* after a failed moonshot broadcast the next scan of the cycle meets the
\* contract again and skips it as in cooldown; a rug broadcast failed as well
C16_Witness ==
    /\ moon.dispatch = "failed"
    /\ \E e \in exams :
          /\ e.kind = "moon" /\ ~e.classified /\ e.prior_ts /= Absent
          /\ e.contract \in DOMAIN detected_moonshots
    /\ \E i \in 1..Len(sink) : sink[i].kind = "rug"

\* C25: the pools that follow a detected pool in a scan do not wait for the
\* alert's dispatch: the step in which a broadcast returns examines no pool
C25_DispatchDoesNotBlock ==
    [][ /\ (rug.pc = "dispatching" /\ rug' /= rug) => exams' = {}
        /\ (moon.pc = "dispatching" /\ moon' /= moon) => exams' = {} ]_vars

\* C17: a task that wakes from the sleep after a cycle in which no network
\* gave usable data has slept strictly longer than its scan interval
C17_BackoffAfterFailedCycle ==
    [][ /\ (rug.pc = "sleeping" /\ rug'.pc = "fetching" /\ ~rug.usable) =>
              now > rug.slept_at + rug_scan_interval
        /\ (moon.pc = "sleeping" /\ moon'.pc = "fetching" /\ ~moon.usable) =>
              now > moon.slept_at + moonshot_scan_interval ]_vars

\* ------------------------------------------------------------------------
\* Properties of the rate limiter (specification SpecRL)
\* ------------------------------------------------------------------------
\* C1: the acquire completions that lie in any rolling window of length
\* time_window, the call that is exactly time_window old included, never
\* number more than max_calls
C1_WindowNeverExceeded ==
    \A i \in 1..Len(completions) :
        Cardinality({j \in 1..Len(completions) :
                        /\ completions[j] >= completions[i]
                        /\ completions[j] <= completions[i] + RLTimeWindow})
            <= RLMaxCalls

\* C18: the lock is handed to the waiting caller of the smallest priority
\* number: no caller leaves the wait while a caller of higher priority (a
\* smaller number) is still waiting
C18_PriorityOrder ==
    [][ \A c \in Callers :
            (callers[c].pc = "waiting" /\ callers'[c].pc /= "waiting") =>
                \A d \in Callers :
                    callers[d].pc = "waiting" =>
                        callers[c].priority <= callers[d].priority ]_vars

\* the rate limiter with a fair scheduler and a clock that keeps running:
\* acquire is called during the first window, with the priority the pool
\* queries use, and the clock runs on for as long as the callers of that
\* moment can need
RLHorizon == RLTimeWindow + NumCallers * RLTimeWindow

\* _make_request(url, priority=3) of get_trending_pools and get_new_pools
PoolQueryPriority == 3

FairAcquire(c) ==
    /\ now <= RLTimeWindow
    /\ Acquire(c, PoolQueryPriority)

\* the clock moves on once every task that is ready has run: no sleeper is
\* due and the lock is not waiting to be handed over
FairTick ==
    /\ now < RLHorizon
    /\ \A c \in Callers : ~(callers[c].pc = "sleeping" /\ callers[c].wake_at <= now)
    /\ ~(lock.holder = 0 /\ lock.waiters /= <<>>)
    /\ now' = now + 1
    /\ UNCHANGED <<monitorVars, limiterVars, classifyVars, clientVars>>

NextRLFair ==
    \/ \E c \in Callers : FairAcquire(c)
    \/ \E c \in Callers : LockGranted(c)
    \/ \E c \in Callers : WakeUp(c)
    \/ FairTick

\* the event loop runs every task that is ready, and time advances
SpecRLFair ==
    /\ InitRL
    /\ [][NextRLFair]_vars
    /\ \A c \in Callers : WF_vars(LockGranted(c)) /\ WF_vars(WakeUp(c))
    /\ WF_vars(FairTick)

\* C20: every acquire that was called completes, also when callers queue up
\* behind a caller that sleeps with the window full
C20_AcquireCompletes ==
    \A c \in Callers : (callers[c].pc /= "idle") ~> (callers[c].pc = "idle")

\* one caller sleeps with the window full while two others queue for the lock
C20_Witness ==
    /\ \E c \in Callers : callers[c].pc = "sleeping"
    /\ Cardinality({c \in Callers : callers[c].pc = "waiting"}) >= 2
    /\ Len(calls) >= RLMaxCalls

\* ------------------------------------------------------------------------
\* start() and stop(): a behaviour follows either the two scan tasks
\* (input.kind = "tasks") or the tasks that are inside RateLimiter.acquire
\* (input.kind = "acquire") while the monitor is started and stopped
\* ------------------------------------------------------------------------
\* start() goes on whether or not the monitor runs
StartsAnyway == TRUE

\* if self.running: return
CanStart == ~running

\* start() is called; the bound counts the cycles a class has begun
StartCall ==
    /\ input.kind = "tasks"
    /\ CanStart
    /\ moon.scan_count < MaxMoonScans
    /\ rug.scan_count < MaxRugScans
    /\ Launch(networks)

\* stop() clears the flag and leaves the tasks alone
NotCancelled(task) == task

\* task.cancel(): CancelledError is raised at the task's await, no handler
\* of the task catches it (they catch Exception) and the task ends; alert
\* keeps the contract whose broadcast was cut off
Cancelled(task) ==
    [TaskNone EXCEPT !.pc = "cancelled", !.scan_count = task.scan_count,
                     !.alert = task.alert]

\* stop() is called
StopCall ==
    /\ input.kind = "tasks"
    /\ running
    /\ running' = FALSE
    /\ moon' = Cancelled(moon)
    /\ rug' = Cancelled(rug)
    /\ UNCHANGED <<now, tz, pool_history, detected_moonshots, detected_rugs, stats,
                   sink, exams, market, limiterVars, classifyVars, clientVars>>

\* time passes, with the monitor running or stopped
StopTick ==
    /\ input.kind = "tasks"
    /\ \E t \in TimePoints : t > now /\ now' = t
    /\ UNCHANGED <<monitorVars, limiterVars, classifyVars, clientVars>>

\* a task inside acquire is cancelled: a waiter leaves the lock's queue, a
\* sleeper leaves "async with self._lock" before calls.append
CancelAcquire(c) ==
    /\ callers[c].pc \in {"waiting", "sleeping"}
    /\ callers' = [callers EXCEPT ![c] = [IdleCaller EXCEPT !.pc = "cancelled"]]
    /\ lock' = IF callers[c].pc = "sleeping"
               THEN [lock EXCEPT !.holder = 0]
               ELSE [lock EXCEPT !.waiters = SelectSeq(@, LAMBDA w : w /= c)]
    /\ UNCHANGED <<now, calls, completions, priority_queue, monitorVars,
                   classifyVars, clientVars>>

InitStop ==
    /\ now = 0
    /\ MonitorWith({0}, {Swing})
    /\ LimiterInit /\ ClientInit
    /\ input \in {[kind |-> "tasks"], [kind |-> "acquire"]}
    /\ output = <<>>

NextStop ==
    \/ StartCall
    \/ StopCall
    \/ StopTick
    \/ \E all_pools \in AllFeeds : RugFetched(all_pools)
    \/ RugDispatched("delivered")
    \/ RugWake
    \/ \E all_pools \in AllFeeds : MoonFetched(all_pools)
    \/ MoonDispatched("delivered")
    \/ MoonWake
    \/ input.kind = "acquire" /\ \E c \in Callers : FairAcquire(c)
    \/ input.kind = "acquire" /\ \E c \in Callers : LockGranted(c)
    \/ input.kind = "acquire" /\ \E c \in Callers : WakeUp(c)
    \/ input.kind = "acquire" /\ \E c \in Callers : CancelAcquire(c)
    \/ input.kind = "acquire" /\ FairTick

SpecStop == InitStop /\ [][NextStop]_vars

\* C24: an alert whose broadcast was cut off by stop() is not left in its
\* class's detected map
C24_NoRecordWithoutDispatch ==
    /\ (rug.pc = "cancelled" /\ rug.alert /= "") => rug.alert \notin DOMAIN detected_rugs
    /\ (moon.pc = "cancelled" /\ moon.alert /= "") =>
            moon.alert \notin DOMAIN detected_moonshots

StoreTimePoints == {0, 60, 120}

StorePool == MonitorPool(10)

ScanState ==
    [pool_history |-> pool_history, detected |-> <<>>, count |-> 0, sink |-> <<>>,
     exams |-> {}, alerted |-> FALSE, failed |-> FALSE, rest |-> <<>>]

InitStore ==
    /\ now = 0
    /\ MonitorIdle
    /\ LimiterInit /\ ClientInit
    /\ ClassifyIdle

\* current_time = time.time() of a rug scan, taken before its pool loop
StoreRugStamp ==
    /\ rug.pc = "none"
    /\ rug.scan_count < MaxStoreAppends
    /\ rug' = [rug EXCEPT !.pc = "looping", !.current_time = now, !.scan_count = @ + 1]
    /\ UNCHANGED <<now, tz, pool_history, detected_moonshots, detected_rugs, stats,
                   moon, sink, exams, running, market, limiterVars, classifyVars, clientVars>>

\* the rug scan reaches the pool: append and classify
StoreRugAppend ==
    /\ rug.pc = "looping"
    /\ LET st == RugStep(ScanState, StorePool, rug.current_time) IN
          /\ pool_history' = st.pool_history
          /\ exams' = st.exams
    /\ rug' = [rug EXCEPT !.pc = "appended", !.current_time = 0]
    /\ UNCHANGED <<now, tz, detected_moonshots, detected_rugs, stats,
                   moon, sink, running, market, limiterVars, classifyVars, clientVars>>

\* current_time = time.time() of a moonshot scan
StoreMoonStamp ==
    /\ moon.pc = "none"
    /\ moon.scan_count < MaxStoreMoonAppends
    /\ moon' = [moon EXCEPT !.pc = "looping", !.current_time = now, !.scan_count = @ + 1]
    /\ UNCHANGED <<now, tz, pool_history, detected_moonshots, detected_rugs, stats,
                   rug, sink, exams, running, market, limiterVars, classifyVars, clientVars>>

\* the moonshot scan reaches the pool: append and classify
StoreMoonAppend ==
    /\ moon.pc = "looping"
    /\ LET st == MoonStep(ScanState, StorePool, moon.current_time) IN
          /\ pool_history' = st.pool_history
          /\ exams' = st.exams
    /\ moon' = [moon EXCEPT !.pc = "none", !.current_time = 0]
    /\ UNCHANGED <<now, tz, detected_moonshots, detected_rugs, stats,
                   rug, sink, running, market, limiterVars, classifyVars, clientVars>>

\* _cleanup_old_history at the end of the rug cycle, after the scans of the
\* remaining networks: the moonshot scan can append in between
StoreCleanup ==
    /\ rug.pc = "appended"
    /\ pool_history' = CleanupOldHistory(pool_history)
    /\ rug' = [rug EXCEPT !.pc = "none"]
    /\ UNCHANGED <<now, tz, detected_moonshots, detected_rugs, stats, moon,
                   sink, exams, running, market, limiterVars, classifyVars, clientVars>>

StoreTick ==
    /\ \E t \in StoreTimePoints : t > now /\ now' = t
    /\ UNCHANGED <<monitorVars, limiterVars, classifyVars, clientVars>>

NextStore ==
    \/ StoreRugStamp
    \/ StoreRugAppend
    \/ StoreMoonStamp
    \/ StoreMoonAppend
    \/ StoreCleanup
    \/ StoreTick

SpecStore == InitStore /\ [][NextStore]_vars

\* C7: the snapshot a classifier selects for a target time T is the one with
\* the greatest timestamp among the snapshots with timestamp <= T (none when
\* there is no such snapshot); it never has timestamp > T
C7_NearestBefore ==
    \A e \in exams : \A l \in e.lookups :
        LET atOrBefore == {i \in 1..Len(e.history) : e.history[i].timestamp <= l.target}
        IN /\ l.found = <<>> <=> atOrBefore = {}
           /\ l.found /= <<>> =>
                /\ l.found[1].timestamp <= l.target
                /\ \A i \in atOrBefore : e.history[i].timestamp <= l.found[1].timestamp
                /\ \E i \in atOrBefore : e.history[i] = l.found[1]

\* a lookup in a pruned history that holds a newer snapshot in front of the
\* selected one and an older one behind it
C7_Witness ==
    \E e \in exams : \E l \in e.lookups :
        /\ l.found /= <<>>
        /\ Len(e.history) > 2
        /\ e.history[1].timestamp > l.target
        /\ e.history[Len(e.history)].timestamp <= l.target
        /\ e.history[Len(e.history)].timestamp < l.found[1].timestamp

\* C13: in every reachable state every pool's history holds at most 10
\* snapshots
C13_HistoryBounded ==
    \A p \in DOMAIN pool_history : Len(pool_history[p]) <= 10

\* C26: every pool's stored history is in non-decreasing timestamp order,
\* also after pruning and when the two scans' appends interleave
C26_HistoryInArrivalOrder ==
    \A p \in DOMAIN pool_history :
        \A i \in 1..Len(pool_history[p]) : \A j \in i..Len(pool_history[p]) :
            pool_history[p][i].timestamp <= pool_history[p][j].timestamp

\* ------------------------------------------------------------------------
\* The classifiers on their own: one pool record is scanned against a history
\* of at most one earlier snapshot
\* ------------------------------------------------------------------------
ClassifyTime == 5 * 60

Snapshot(timestamp, price, liquidity, volume_1h) ==
    [timestamp |-> timestamp, liquidity |-> liquidity, price |-> price,
     volume_1h |-> volume_1h, contract |-> "c1"]

\* moonshot scans: every metric on both sides of every tier's minimum; the
\* earlier snapshot, when there is one, is 300 s old with price 100
MoonInputs ==
    {[kind |-> "moon",
      pool |-> MkPool("p1", "c1", price, reserve, Absent, vol_h24, tx, mcap, pc_m5),
      history |-> history] :
        price \in {119, 120, 130, 174, 175},
        reserve \in {9999, 10000, 20000, 75000},
        vol_h24 \in {14999, 15000, 30000, 50000, 75000},
        tx \in {74, 75, 100, 150},
        mcap \in {49999, 50000, 100000, 200000, 500000},
        pc_m5 \in {Absent, 80},
        history \in {<<>>, <<Snapshot(0, 100, 50000, Absent)>>}}

\* ages of the earlier snapshot of a rug scan: at the lookback, and past it
SnapshotAges == {60, 65}

\* rug scans: the earlier snapshot is 60 or 65 s old at scan time 300
RugInputs ==
    {[kind |-> "rug",
      pool |-> MkPool("p1", "c1", price, reserve, vol_h1, 50000, 100, 200000, Absent),
      history |-> <<Snapshot(ClassifyTime - age, old_price, old_liquidity, old_volume)>>] :
        price \in {Absent, 100, 51, 50, 41, 40},
        reserve \in {Absent, 999, 1000, 4000, 50000},
        vol_h1 \in {Absent, 5999, 6000},
        old_price \in {0, 100},
        old_liquidity \in {9999, 10000, 50000},
        old_volume \in {Absent, 999, 1000},
        age \in SnapshotAges}

InitClassify ==
    /\ now = ClassifyTime
    /\ MonitorIdle
    /\ LimiterInit /\ ClientInit
    /\ input \in MoonInputs \cup RugInputs
    /\ output = <<>>

InputState ==
    [pool_history |-> IF input.history = <<>> THEN <<>>
                      ELSE (input.pool.id :> input.history),
     detected |-> <<>>, count |-> 0, sink |-> <<>>,
     exams |-> {}, alerted |-> FALSE, failed |-> FALSE, rest |-> <<>>]

\* one pass of the moonshot scan's pool loop over the input record
ClassifyMoon ==
    /\ input.kind = "moon"
    /\ output = <<>>
    /\ output' = <<CHOOSE e \in MoonStep(InputState, input.pool, now).exams : TRUE>>
    /\ UNCHANGED <<now, monitorVars, limiterVars, clientVars, input>>

\* one pass of the rug scan's pool loop over the input record
ClassifyRug ==
    /\ input.kind = "rug"
    /\ output = <<>>
    /\ output' = <<CHOOSE e \in RugStep(InputState, input.pool, now).exams : TRUE>>
    /\ UNCHANGED <<now, monitorVars, limiterVars, clientVars, input>>

NextClassify == ClassifyMoon \/ ClassifyRug

SpecClassify == InitClassify /\ [][NextClassify]_vars

\* ------------------------------------------------------------------------
\* Properties of the classifiers (specification SpecClassify)
\* ------------------------------------------------------------------------
Scanned(kind) == output /= <<>> /\ output[1].kind = kind

Field(v) == IF v = Absent THEN 0 ELSE v

\* rule k of the ordered tier list is fully met by the scanned record
TierMet(k, e) ==
    LET rule == MOONSHOT_CRITERIA_LIST[k]
        best == BestPriceChange((e.pool.id :> e.history), e.pool, e.pool.id, now)
    IN /\ Field(e.pool.reserve_in_usd) >= rule.min_liquidity
       /\ best >= rule.min_price_change
       /\ Field(e.pool.volume_usd_h24) >= rule.min_volume_24h
       /\ Field(e.pool.tx_buys) + Field(e.pool.tx_sells) >= rule.min_tx_count_24h
       /\ Field(e.pool.market_cap_usd) >= rule.min_market_cap

TierIndex(tier) ==
    IF tier = "POTENTIAL 100X" THEN 1
    ELSE IF tier = "POTENTIAL 10X" THEN 2
    ELSE IF tier = "POTENTIAL 2X" THEN 3
    ELSE 4

\* C5: the moonshot classifier returns the tier of the first rule of the
\* list 100X, 10X, 2X that is fully met, none when no rule is; so a record
\* that meets tier T is reported as T or as a tier earlier in the list
C5_FirstMatchingTier ==
    Scanned("moon") =>
        LET e == output[1]
            k == TierIndex(e.result)
        IN /\ k <= 3 => TierMet(k, e)
           /\ \A j \in 1..3 : TierMet(j, e) => k <= j

\* the top rule fails, the two lower rules are both met: 10X is reported
C5_Witness ==
    /\ Scanned("moon")
    /\ ~TierMet(1, output[1]) /\ TierMet(2, output[1]) /\ TierMet(3, output[1])
    /\ output[1].result = "POTENTIAL 10X"

\* the rug rules on the comparison snapshot old and the current snapshot cur
DrainHolds(old, cur) ==
    /\ old.liquidity > 0
    /\ (old.liquidity - cur.liquidity) * 100 >= 40 * old.liquidity
    /\ old.liquidity >= 10000
    /\ cur.liquidity < 1000

CrashHolds(old, cur) ==
    old.price > 0 /\ (old.price - cur.price) * 100 >= 60 * old.price

DumpHolds(old, cur) ==
    /\ Field(old.volume_1h) > 0
    /\ (Field(cur.volume_1h) - Field(old.volume_1h)) * 100 >= 500 * Field(old.volume_1h)
    /\ old.price > 0 /\ (old.price - cur.price) * 100 >= 50 * old.price
    /\ Field(old.volume_1h) >= 1000

\* C6: liquidity-drain, then price-crash, then volume-dump, the first rule
\* that holds wins; volume-dump only when neither earlier rule holds and the
\* spike, the price drop and the prior volume all meet its thresholds
C6_RugRuleOrder ==
    Scanned("rug") =>
        LET e == output[1]
            old == e.history[1]
            cur == e.history[2]
        IN e.result = IF DrainHolds(old, cur) THEN "LIQUIDITY_DRAIN"
                      ELSE IF CrashHolds(old, cur) THEN "PRICE_CRASH"
                      ELSE IF DumpHolds(old, cur) THEN "VOLUME_DUMP"
                      ELSE "NONE"

\* drain and crash hold together and the drain is reported
C6_Witness ==
    /\ Scanned("rug")
    /\ DrainHolds(output[1].history[1], output[1].history[2])
    /\ CrashHolds(output[1].history[1], output[1].history[2])
    /\ output[1].result = "LIQUIDITY_DRAIN"

\* C8: for every window without a snapshot at or before now - window the
\* moonshot classifier of a scanned pool uses the provider-reported change
\* of that window, and classifies on the best change so obtained
C8_ProviderFallback ==
    Scanned("moon") =>
        LET e == output[1]
            change(i) ==
                IF \E n \in 1..Len(e.history) :
                       e.history[n].timestamp <= now - MoonshotTimeframes[i]
                THEN HistoryPriceChange(e.history, Field(e.pool.base_token_price_usd),
                                        now, MoonshotTimeframes[i])
                ELSE ApiPriceChange(e.pool, i)
        IN e.result = FirstTier(MOONSHOT_CRITERIA_LIST, MoonLiquidity(e.pool),
                                BestOf([i \in 1..4 |-> change(i)], 0),
                                MoonVolume24h(e.pool), MoonTxCount24h(e.pool),
                                MoonMarketCap(e.pool))

\* C9: a record without price or liquidity never yields the rug type that a
\* zero in that field would produce
C9_AbsentIsNotZero ==
    Scanned("rug") =>
        LET e == output[1] IN
        /\ e.pool.base_token_price_usd = Absent
              => e.result /= "PRICE_CRASH"
        /\ (e.pool.reserve_in_usd = Absent /\ e.pool.total_reserve_in_usd = Absent)
              => e.result /= "LIQUIDITY_DRAIN"

\* C11: a pool whose current snapshot has the liquidity and the price of
\* the comparison snapshot is never classified as a rug, whatever the volumes
C11_UnchangedIsNoRug ==
    Scanned("rug") =>
        LET e == output[1]
            old == e.history[1]
            cur == e.history[2]
        IN (cur.liquidity = old.liquidity /\ cur.price = old.price)
               => e.result = "NONE"

\* liquidity and price unchanged while the 1h volume jumps from 1000 to 6000
C11_Witness ==
    /\ Scanned("rug")
    /\ output[1].history[2].liquidity = output[1].history[1].liquidity
    /\ output[1].history[2].price = output[1].history[1].price
    /\ output[1].history[1].price > 0
    /\ output[1].history[1].volume_1h = 1000
    /\ output[1].history[2].volume_1h = 6000
    /\ output[1].history[2].timestamp - output[1].history[1].timestamp > 60
    /\ output[1].result = "NONE"

\* C12: with a snapshot of liquidity 50,000 and, 65 s later, a record of
\* liquidity 4,000, the rug classifier returns the liquidity-drain type
C12_DrainScenario ==
    Scanned("rug") =>
        LET e == output[1]
            old == e.history[1]
            cur == e.history[2]
        IN (/\ old.liquidity = 50000
            /\ cur.liquidity = 4000
            /\ cur.timestamp - old.timestamp = 65)
               => e.result = "LIQUIDITY_DRAIN"

\* ------------------------------------------------------------------------
\* The status report's counter on its own: a stored map of one or two alerts,
\* with ages on both sides of each period, is counted once
\* ------------------------------------------------------------------------
CountTime == 4 * 3600

\* _count_recent_moonshots_by_tier(minutes)
CountRecentMoonshotsByTier(minutes) ==
    LET cutoff_time == now - (minutes * 60) IN
    [tier \in {"POTENTIAL 100X", "POTENTIAL 10X", "POTENTIAL 2X"} |->
        Cardinality({contract \in DOMAIN detected_moonshots :
            /\ NaiveTimestamp(detected_moonshots[contract].timestamp) >= cutoff_time
            /\ detected_moonshots[contract].tier = tier})]

\* maps of alerts of contract c1 and, possibly, c2, stored with utcnow() at
\* the given ages in minutes before CountTime
StoredAlerts ==
    {[c \in stored |-> [NoMoonshotAlert EXCEPT !.contract = c, !.tier = tiers[c],
                                               !.timestamp = CountTime - ages[c] * 60]] :
        tiers \in [{"c1", "c2"} -> {"POTENTIAL 100X", "POTENTIAL 10X", "POTENTIAL 2X"}],
        ages \in [{"c1", "c2"} -> {10, 30, 45, 46, 105, 120}],
        stored \in {{"c1"}, {"c1", "c2"}}}

\* the report period is 45 minutes; the unit test also counts 30 and 120
InitCount ==
    /\ now = CountTime
    /\ tz \in TzOffsets
    /\ pool_history = <<>>
    /\ detected_moonshots \in StoredAlerts
    /\ detected_rugs = <<>>
    /\ stats = [moonshots_detected |-> 0, rugs_detected |-> 0]
    /\ moon = TaskNone
    /\ rug = TaskNone
    /\ sink = <<>>
    /\ exams = {}
    /\ running = FALSE
    /\ market = Crash
    /\ LimiterInit /\ ClientInit
    /\ input \in [kind : {"count"}, minutes : {30, 45, 120}]
    /\ output = <<>>

\* _generate_status_report calls the counter
CountTiers ==
    /\ input.kind = "count"
    /\ output = <<>>
    /\ output' = <<[kind |-> "count", minutes |-> input.minutes,
                    counts |-> CountRecentMoonshotsByTier(input.minutes)]>>
    /\ UNCHANGED <<now, monitorVars, limiterVars, clientVars, input>>

SpecCount == InitCount /\ [][CountTiers]_vars

\* C22: the counter returns, for each tier, the number of stored alerts of
\* that tier whose timestamp is at most the given minutes before now, and
\* never counts an older alert
C22_CountsRecentByTier ==
    Scanned("count") =>
        \A tier \in DOMAIN output[1].counts :
            output[1].counts[tier] =
                Cardinality({c \in DOMAIN detected_moonshots :
                    /\ detected_moonshots[c].tier = tier
                    /\ now - detected_moonshots[c].timestamp <= output[1].minutes * 60})

\* ------------------------------------------------------------------------
\* The client on its own: tasks call _make_request for the same URLs
\* ------------------------------------------------------------------------
InitReq == now = 0 /\ MonitorIdle /\ LimiterInit /\ ClientInit /\ ClassifyIdle

\* the tasks that call _make_request
Clients == 1..NumClients

NextReq ==
    \/ \E c \in Clients, url \in Urls : MakeRequest(c, url, PoolQueryPriority)
    \/ \E c \in Clients : LockGranted(c)
    \/ \E c \in Clients : WakeUp(c)
    \/ \E c \in Clients, response \in Responses : Respond(c, response)
    \/ RequestTick

SpecReq == InitReq /\ [][NextReq]_vars

\* C30: every outbound request follows exactly one completed acquire of its
\* own (the i-th request leaves at the instant the i-th acquire records its
\* call, and nothing else completes an acquire); a call of _make_request for
\* a URL whose status-200 response was stored less than 300 s ago returns
\* the stored data, issues no request and leaves the limiter untouched; and
\* the cache only ever holds the data of successful responses
C30_AcquireThenRequest ==
    [][ /\ Len(outbound') = Len(completions')
        /\ \A i \in 1..Len(outbound') : outbound'[i].at = completions'[i]
        /\ \A c \in Callers :
              requests'[c].pc = "requesting" => callers'[c].pc = "idle"
        /\ \A url \in DOMAIN cache' : cache'[url].data \in Payloads
        /\ \A c \in Callers :
              LET url == requests'[c].url
              IN (/\ requests[c].pc = "idle"
                  /\ requests'[c] /= requests[c]
                  /\ url \in DOMAIN cache
                  /\ now - cache[url].timestamp < 300)
                 => /\ requests'[c].pc = "idle"
                    /\ requests'[c].result = cache[url].data
                    /\ outbound' = outbound
                    /\ calls' = calls
                    /\ completions' = completions
                    /\ priority_queue' = priority_queue ]_vars

\* two tasks hold the same data for u1 although only one request for u1 ever
\* left, just before that response expires, and the answered request for u2
\* left nothing in the cache
C30_Witness ==
    /\ \A c \in Callers : requests[c].pc = "idle"
    /\ Len(outbound) = 2
    /\ outbound[1].url = "u2" /\ outbound[2].url = "u1"
    /\ DOMAIN cache = {"u1"}
    /\ now - cache["u1"].timestamp = cache_ttl - 1
    /\ \A c \in Clients : /\ requests[c].url = "u1"
                           /\ requests[c].result = cache["u1"].data

====
